---- MODULE Spec2Model ----
(***************************************************************************)
(* thyme-backend: the photo library index (package photos: Scan, the      *)
(* per-file store step, the sibling linker updatePhotoSiblings and the    *)
(* aggregate pass updateSets) and the thumbnail pipeline (package thumbs: *)
(* Generate, its worker goroutines, generateThumbs and generateThumb).    *)
(*                                                                         *)
(* The database is SQLite.  What the model takes from SQLite:             *)
(*   - an INTEGER PRIMARY KEY is the rowid; with no deletions the next    *)
(*     row gets id = number of rows + 1, so a table is a sequence and a   *)
(*     row's id is its index;                                              *)
(*   - NULL sorts before every value in ORDER BY ... ASC (after, in DESC);*)
(*   - rows that tie under ORDER BY come out in rowid order;              *)
(*   - MIN() skips NULL; the bare columns next to MIN() come from the     *)
(*     first row (in rowid order) that holds the minimum, and from the    *)
(*     last row of the group when every input is NULL;                    *)
(*   - an UPDATE that would break a UNIQUE index fails alone: the row is  *)
(*     left as it was and the transaction stays open.                     *)
(***************************************************************************)
EXTENDS Integers, Sequences, FiniteSets, Bags, TLC

\* ------------------------------------------------------------------ bounds
MaxFiles == 3      \* files the tree holds at any time
MaxTime == 3       \* distinct capture timestamps 1..MaxTime
PerDir == 3        \* file paths per directory
MaxPhotos == 2     \* photos in the library the pipeline runs on
MaxRescan == 2     \* paths of the tree whose files are rewritten between scans
MaxRace == 1       \* photos in the library two concurrent Generate runs share
MaxRetry == 1      \* photos in the library whose runs are compared one to the next

\* const workers = 4
workers == 4

\* SQL NULL of the nullable integer / char(19) columns
Null == 0

\* file paths, in lexical order: those the scanned trees draw their files
\* from, and one more than the pool has workers for the library that
\* saturates the pool
ScanPaths == 1..(MaxFiles + 1)
Paths == 1..(IF MaxFiles > workers THEN MaxFiles + 1 ELSE workers + 1)
Times == 1..MaxTime

\* filepath.Base(filepath.Dir(path)): the directory holding the file
DirName(p) == ((p - 1) \div PerDir) + 1

VARIABLES
    files,      \* the file tree: path -> [state, taken_at]
    db,         \* the SQLite database: [sets, photos], id = index
    scanned     \* TRUE when the tree has not changed since the last Scan

\* ------------------------------------------------------------ file tree
AbsentFile == [state |-> "absent", taken_at |-> Null]
CorruptFile == [state |-> "corrupt", taken_at |-> Null]
PhotoFile(t) == [state |-> "photo", taken_at |-> t]

Present(fs) == {p \in Paths : fs[p].state # "absent"}

\* filepath.Walk visits a directory's entries in lexical order
PathLess(p, q) == p < q

WalkOrder(fs) ==
    LET ps == Present(fs)
        rank(p) == Cardinality({q \in ps : PathLess(q, p)}) + 1
    IN  [i \in 1..Cardinality(ps) |-> CHOOSE p \in ps : rank(p) = i]

\* ------------------------------------------------------------- database
EmptyDB == [sets |-> <<>>, photos |-> <<>>]

SetIds(d) == 1..Len(d.sets)
PhotoIds(d) == 1..Len(d.photos)

\* a store that refreshes the row of a path it already knows
storeUpsert(d, path, takenAt) ==
    LET setName == DirName(path)
        found == {i \in SetIds(d) : d.sets[i].name = setName}
        sets1 == IF found = {}
                 THEN Append(d.sets, [name |-> setName, photos_count |-> Null,
                                      taken_at |-> Null, thumb_photo_id |-> Null])
                 ELSE d.sets
        setId == IF found = {} THEN Len(sets1) ELSE CHOOSE i \in found : TRUE
        known == {i \in PhotoIds(d) : d.photos[i].path = path}
        photos1 == IF known = {}
                   THEN Append(d.photos, [set_id |-> setId, prev_photo_id |-> Null,
                                          next_photo_id |-> Null, path |-> path,
                                          taken_at |-> takenAt])
                   ELSE [i \in PhotoIds(d) |->
                           IF i \in known
                           THEN [d.photos[i] EXCEPT !.taken_at = takenAt]
                           ELSE d.photos[i]]
    IN  [sets |-> sets1, photos |-> photos1]

\* Photo.store: insert the Set if its name is new, insert the Photo if its
\* path is new, and nothing else
store(d, path, takenAt) ==
    LET setName == DirName(path)
        found == {i \in SetIds(d) : d.sets[i].name = setName}
        sets1 == IF found = {}
                 THEN Append(d.sets, [name |-> setName, photos_count |-> Null,
                                      taken_at |-> Null, thumb_photo_id |-> Null])
                 ELSE d.sets
        setId == IF found = {} THEN Len(sets1) ELSE CHOOSE i \in found : TRUE
        known == {i \in PhotoIds(d) : d.photos[i].path = path}
        photos1 == IF known = {}
                   THEN Append(d.photos, [set_id |-> setId, prev_photo_id |-> Null,
                                          next_photo_id |-> Null, path |-> path,
                                          taken_at |-> takenAt])
                   ELSE d.photos
    IN  [sets |-> sets1, photos |-> photos1]

\* walkPath: skip what is no photo or cannot be decoded, store the rest
walkPath(d, path, file) ==
    IF file.state = "photo" THEN store(d, path, file.taken_at) ELSE d

RECURSIVE Walk(_, _, _, _)
Walk(d, order, fs, i) ==
    IF i > Len(order) THEN d
    ELSE Walk(walkPath(d, order[i], fs[order[i]]), order, fs, i + 1)

\* an ORDER BY that puts NULL after every timestamp
SiblingLessNullsLast(photos, a, b) ==
    \/ photos[a].set_id < photos[b].set_id
    \/ /\ photos[a].set_id = photos[b].set_id
       /\ \/ photos[a].taken_at # Null /\ photos[b].taken_at = Null
          \/ /\ photos[a].taken_at # Null /\ photos[b].taken_at # Null
             /\ photos[a].taken_at < photos[b].taken_at
          \/ (photos[a].taken_at = photos[b].taken_at /\ a < b)

\* ORDER BY set_id, taken_at (NULL first, ties in rowid order)
SiblingLess(photos, a, b) ==
    \/ photos[a].set_id < photos[b].set_id
    \/ /\ photos[a].set_id = photos[b].set_id
       /\ \/ photos[a].taken_at < photos[b].taken_at
          \/ (photos[a].taken_at = photos[b].taken_at /\ a < b)

SiblingRows(photos) ==
    LET ids == 1..Len(photos)
        rank(a) == Cardinality({b \in ids : SiblingLess(photos, b, a)}) + 1
    IN  [i \in ids |-> CHOOSE a \in ids : rank(a) = i]

\* what walkPath writes for one file: the line Photo.store prints for the row
\* it inserts, and nothing for a file it skips or a path it knows
walkOutput(d, path, file) ==
    IF file.state = "photo" /\ ~\E i \in PhotoIds(d) : d.photos[i].path = path
    THEN <<[kind |-> "photos", path |-> path]>>
    ELSE <<>>

RECURSIVE WalkOutput(_, _, _, _)
WalkOutput(d, order, fs, i) ==
    IF i > Len(order) THEN <<>>
    ELSE walkOutput(d, order[i], fs[order[i]])
           \o WalkOutput(walkPath(d, order[i], fs[order[i]]), order, fs, i + 1)

\* the UNIQUE indexes on prev_photo_id and next_photo_id: another row holds val
PrevTaken(photos, val, id) ==
    \E j \in 1..Len(photos) : j # id /\ photos[j].prev_photo_id = val

NextTaken(photos, val, id) ==
    \E j \in 1..Len(photos) : j # id /\ photos[j].next_photo_id = val

\* UPDATE photos SET prev_photo_id = val WHERE id = id, under the UNIQUE
\* index on prev_photo_id; the caller drops the error
UpdatePrev(photos, val, id) ==
    IF PrevTaken(photos, val, id)
    THEN photos
    ELSE [photos EXCEPT ![id].prev_photo_id = val]

UpdateNext(photos, val, id) ==
    IF NextTaken(photos, val, id)
    THEN photos
    ELSE [photos EXCEPT ![id].next_photo_id = val]

\* a test that forgets the Set boundary
SiblingsAcrossSets(setId, prevSetId, prevId) == prevId > 0

\* if setId == prevSetId && prevId > 0: the row and the one before it are
\* siblings
Siblings(setId, prevSetId, prevId) == setId = prevSetId /\ prevId > 0

RECURSIVE SiblingLoop(_, _, _, _, _)
SiblingLoop(photos, rows, i, prevId, prevSetId) ==
    IF i > Len(rows) THEN photos
    ELSE LET id == rows[i]
             setId == photos[id].set_id
             linked == IF Siblings(setId, prevSetId, prevId)
                       THEN UpdateNext(UpdatePrev(photos, prevId, id), id, prevId)
                       ELSE photos
         IN  SiblingLoop(linked, rows, i + 1, id, setId)

updatePhotoSiblings(d) ==
    [d EXCEPT !.photos = SiblingLoop(d.photos, SiblingRows(d.photos), 1, 0, 0)]

\* how many Exec calls of the loop of updatePhotoSiblings returned an error
RECURSIVE SiblingErrors(_, _, _, _, _)
SiblingErrors(photos, rows, i, prevId, prevSetId) ==
    IF i > Len(rows) THEN 0
    ELSE LET id == rows[i]
             setId == photos[id].set_id
             pair == Siblings(setId, prevSetId, prevId)
             afterPrev == IF pair THEN UpdatePrev(photos, prevId, id) ELSE photos
             afterNext == IF pair THEN UpdateNext(afterPrev, id, prevId) ELSE photos
             prevErr == IF pair /\ PrevTaken(photos, prevId, id) THEN 1 ELSE 0
             nextErr == IF pair /\ NextTaken(afterPrev, id, prevId) THEN 1 ELSE 0
         IN  prevErr + nextErr + SiblingErrors(afterNext, rows, i + 1, id, setId)

Max(S) == CHOOSE x \in S : \A y \in S : y <= x
Min(S) == CHOOSE x \in S : \A y \in S : x <= y

\* rows of one GROUP BY set_id group
PhotosOf(photos, setId) == {i \in 1..Len(photos) : photos[i].set_id = setId}

\* MIN(taken_at) that lets NULL take part as the least value
MinTakenAtWithNull(photos, setId) ==
    Min({photos[i].taken_at : i \in PhotosOf(photos, setId)})

\* MIN(taken_at): NULL inputs are skipped, NULL when there is no other
MinTakenAt(photos, setId) ==
    LET ts == {photos[i].taken_at : i \in PhotosOf(photos, setId)} \ {Null}
    IN  IF ts = {} THEN Null ELSE CHOOSE t \in ts : \A u \in ts : t <= u

\* the bare column taken from the last row that holds the minimum
BareIdLast(photos, setId) ==
    LET grp == PhotosOf(photos, setId)
        m == MinTakenAt(photos, setId)
    IN  Max({i \in grp : photos[i].taken_at = m})

\* the bare column id of SELECT id, set_id, MIN(taken_at) ... GROUP BY set_id
BareId(photos, setId) ==
    LET grp == PhotosOf(photos, setId)
        m == MinTakenAt(photos, setId)
    IN  IF m = Null THEN Max(grp)
        ELSE Min({i \in grp : photos[i].taken_at = m})

\* SELECT COUNT(*) FROM photos WHERE set_id = ?
PhotosCount(photos, setId) == Cardinality(PhotosOf(photos, setId))

\* the UNIQUE index on thumb_photo_id: another Set holds thumbId
ThumbTaken(sets, thumbId, setId) ==
    \E j \in 1..Len(sets) : j # setId /\ sets[j].thumb_photo_id = thumbId

\* UPDATE sets SET photos_count, taken_at, thumb_photo_id WHERE id = setId,
\* under the UNIQUE index on thumb_photo_id
UpdateSet(sets, count, takenAt, thumbId, setId) ==
    IF ThumbTaken(sets, thumbId, setId)
    THEN sets
    ELSE [sets EXCEPT ![setId] = [@ EXCEPT !.photos_count = count,
                                           !.taken_at = takenAt,
                                           !.thumb_photo_id = thumbId]]

RECURSIVE SetsLoop(_, _, _)
SetsLoop(sets, photos, groups) ==
    IF groups = {} THEN sets
    ELSE LET setId == Min(groups)
         IN  SetsLoop(UpdateSet(sets, PhotosCount(photos, setId),
                                MinTakenAt(photos, setId),
                                BareId(photos, setId), setId),
                      photos, groups \ {setId})

\* how many Exec calls of the loop of updateSets returned an error
RECURSIVE SetsErrors(_, _, _)
SetsErrors(sets, photos, groups) ==
    IF groups = {} THEN 0
    ELSE LET setId == Min(groups)
             thumbId == BareId(photos, setId)
         IN  (IF ThumbTaken(sets, thumbId, setId) THEN 1 ELSE 0)
               + SetsErrors(UpdateSet(sets, PhotosCount(photos, setId),
                                      MinTakenAt(photos, setId), thumbId, setId),
                            photos, groups \ {setId})

updateSets(d) ==
    [d EXCEPT !.sets = SetsLoop(d.sets, d.photos,
                                {d.photos[i].set_id : i \in PhotoIds(d)})]

\* Scan: walk the tree, then relink, then recompute the aggregates
ScanResult(d, fs) ==
    updateSets(updatePhotoSiblings(Walk(d, WalkOrder(fs), fs, 1)))

\* ------------------------------------------------------ thumbnail pipeline
Classes == {"big", "small"}

\* artifact names that do not tell the photos apart
ThumbPathCollide(p, class) == <<Min(Paths), class>>

\* path.Join(thumbsPath, thumb.Basename(photoPath, suffix)): one artifact
\* path per (photo path, size class)
ThumbPath(p, class) == <<p, class>>
Artifacts == {ThumbPath(p, c) : p \in Paths, c \in Classes}

\* SELECT path FROM photos JOIN sets ON photos.set_id = sets.id
\* ORDER BY sets.taken_at DESC, photos.taken_at ASC
RowLess(d, a, b) ==
    LET sa == d.sets[d.photos[a].set_id].taken_at
        sb == d.sets[d.photos[b].set_id].taken_at
    IN  \/ sa > sb
        \/ /\ sa = sb
           /\ \/ d.photos[a].taken_at < d.photos[b].taken_at
              \/ (d.photos[a].taken_at = d.photos[b].taken_at /\ a < b)

PhotoRows(d) ==
    LET ids == PhotoIds(d)
        rank(a) == Cardinality({b \in ids : RowLess(d, b, a)}) + 1
    IN  [i \in ids |-> d.photos[CHOOSE a \in ids : rank(a) = i].path]

\* a Stat that never finds the file
ExistsNever(art, disk) == FALSE

\* os.Stat(thumbPath) returns err == nil: a file is there
Exists(art, disk) == art \in disk

\* what vipsthumbnail can do when run: write the file and exit 0 ("ok"),
\* exit non-zero without a file ("fail"), exit 0 without a file ("empty");
\* it writes nothing when its source is missing
ToolOutcomes(srcThere) ==
    IF srcThere THEN {"ok", "fail", "empty"} ELSE {"fail", "empty"}

\* a tool that leaves a partial file behind when it fails
WrittenPartial(disk, art, o) ==
    IF o \in {"ok", "fail"} THEN disk \cup {art} ELSE disk

\* a tool that leaves a file behind whatever its outcome
WrittenAlways(disk, art, o) == disk \cup {art}

\* the artifacts directory after vipsthumbnail ran for art with outcome o
Written(disk, art, o) == IF o = "ok" THEN disk \cup {art} ELSE disk

\* a Run() whose error is dropped
RunErrDropped(outcome) == "nil"

\* exec.Command(...).Run(): nil exactly when the exit status is zero
RunErr(outcome) == IF outcome = "fail" THEN "err" ELSE "nil"

\* the small thumb made from the big one whatever the big call returned
SmallSourceBig(bigErr) == "big"

\* generateThumbs: the small thumb is made from the big one when the big
\* call returned nil, from the photo otherwise
SmallSource(bigErr) == IF bigErr = "nil" THEN "big" ELSE "orig"

\* an increment that is lost
IncrementLost(n) == n

\* bar.Increment()
Increment(n) == n + 1

\* a worker that returns without wg.Done()
WgDoneMissing(n) == n

\* wg.Done()
WgDone(n) == n - 1

\* a goroutine of the pool: where it is, the photo it holds, what the big
\* generateThumb returned, smallThumbPhotoPath ("orig" or "big"), and what
\* the small generateThumb returned
IdleWorker(pc) ==
    [pc |-> pc, path |-> Null, bigErr |-> "none", src |-> "none",
     smallErr |-> "none"]

\* the pool is the bag of its goroutines' states (they have no identity)
Put(bag, ws) == bag (+) SetToBag({ws})
Move(bag, from, to) == (bag (-) SetToBag({from})) (+) SetToBag({to})

\* a worker that has just received path
Received(path) ==
    [pc |-> "bigStat", path |-> path, bigErr |-> "none", src |-> "none",
     smallErr |-> "none"]

\* a send that reaches every goroutine waiting on the channel
HandoffToAll(bag, path) ==
    LET n == CopiesIn(IdleWorker("recv"), bag)
    IN  (bag (-) [ws \in {IdleWorker("recv")} |-> n])
          (+) [ws \in {Received(path)} |-> n]

\* ch <- photoPath on the unbuffered channel: one of the goroutines waiting
\* in `for photoPath := range ch` receives it
Handoff(bag, path) == Move(bag, IdleWorker("recv"), Received(path))

RECURSIVE Spawn(_, _)
Spawn(bag, n) == IF n = 0 THEN bag ELSE Spawn(Put(bag, IdleWorker("recv")), n - 1)

VARIABLES
    thumbs,     \* the artifact files under public/thumbs
    mainPc,     \* Generate: "init", "send", "wait", "done"
    rows,       \* the paths the query returned, in order
    sent,       \* how many of them were sent on ch
    closed,     \* ch is closed
    wg,         \* the WaitGroup counter
    pool,       \* the bag of goroutine states [pc, path, bigErr, src]
    bar,        \* the progress bar: [total, current]
    logged,     \* lines of this run's log file, per artifact
    rerun,      \* this Generate call is not the first one
    outcome,    \* this run: what generateThumb did, per artifact
    counted,    \* this run: bar.Increment() calls, per path
    procs,      \* the Generate processes that run at the same time over
                \* one artifacts directory: per process [mainPc, sent, pool]
    lastRun     \* what generateThumb did in the run before this one, per
                \* artifact (kept where two runs are compared)

thumbVars == <<thumbs, mainPc, rows, sent, closed, wg, pool, bar, logged,
               rerun, outcome, counted, procs, lastRun>>
vars == <<files, db, scanned, thumbVars>>

\* ------------------------------------------------------- scanner actions
\* the processes of a concurrent start
Procs == {"first", "second"}

\* a process that has not started
ProcIdle == [mainPc |-> "init", sent |-> 0, pool |-> EmptyBag]

\* no Generate has been called
GenerateIdle ==
    /\ procs = [k \in Procs |-> ProcIdle]
    /\ lastRun = [a \in Artifacts |-> "none"]
    /\ mainPc = "init"
    /\ rows = <<>>
    /\ sent = 0
    /\ closed = FALSE
    /\ wg = 0
    /\ pool = EmptyBag
    /\ bar = [total |-> 0, current |-> 0]
    /\ logged = [a \in Artifacts |-> 0]
    /\ rerun = FALSE
    /\ outcome = [a \in Artifacts |-> "none"]
    /\ counted = [p \in Paths |-> 0]

ThumbIdle ==
    /\ thumbs = {}
    /\ GenerateIdle

ScanInit ==
    /\ files = [p \in Paths |-> AbsentFile]
    /\ db = EmptyDB
    /\ scanned = FALSE
    /\ ThumbIdle

\* a photo appears in the tree
AddPhoto(p, t) ==
    /\ files[p].state = "absent"
    /\ Cardinality(Present(files)) < MaxFiles
    /\ files' = [files EXCEPT ![p] = PhotoFile(t)]
    /\ scanned' = FALSE
    /\ UNCHANGED <<db, thumbVars>>

\* a file that is no photo, or cannot be decoded, appears in the tree
AddCorrupt(p) ==
    /\ files[p].state = "absent"
    /\ Cardinality(Present(files)) < MaxFiles
    /\ files' = [files EXCEPT ![p] = CorruptFile]
    /\ scanned' = FALSE
    /\ UNCHANGED <<db, thumbVars>>

Scan ==
    /\ db' = ScanResult(db, files)
    /\ scanned' = TRUE
    /\ UNCHANGED <<files, thumbVars>>

ScanNext ==
    \/ \E p \in ScanPaths : \E t \in {Null} \cup Times : AddPhoto(p, t)
    \/ \E p \in ScanPaths : AddCorrupt(p)
    \/ Scan

Spec == ScanInit /\ [][ScanNext]_vars

\* ------------------------------------------------------ rescan actions
\* a photo of the tree is rewritten with other metadata
ChangePhoto(p, t) ==
    /\ files[p].state = "photo"
    /\ files[p].taken_at # t
    /\ files' = [files EXCEPT ![p] = PhotoFile(t)]
    /\ scanned' = FALSE
    /\ UNCHANGED <<db, thumbVars>>

\* scans of a small tree whose photos are rewritten between them, with no
\* timestamp (Null = 0) or one of 1..MaxRescan
RescanNext ==
    \/ \E p \in 1..MaxRescan : \E t \in 0..MaxRescan : AddPhoto(p, t)
    \/ \E p \in 1..MaxRescan : \E t \in 0..MaxRescan : ChangePhoto(p, t)
    \/ Scan

RescanSpec == ScanInit /\ [][RescanNext]_vars

\* ------------------------------------------------------ pipeline actions
\* the library the pipeline runs on: n photos in two directories, scanned
ThumbTree(n) ==
    [p \in Paths |-> IF p \in ScanPaths /\ p > Cardinality(ScanPaths) - n
                     THEN PhotoFile((p % MaxTime) + 1)
                     ELSE AbsentFile]

ThumbInit ==
    /\ \E n \in 0..MaxPhotos : files = ThumbTree(n)
    /\ db = ScanResult(EmptyDB, files)
    /\ scanned = TRUE
    /\ ThumbIdle

\* Generate, up to the start of the send loop: run the query, count the
\* photos, create (truncate) the log file, start the bar and the workers
StartRun ==
    /\ mainPc \in {"init", "done"}
    /\ rerun' = (mainPc = "done")
    /\ rows' = PhotoRows(db)
    /\ bar' = [total |-> Len(db.photos), current |-> 0]
    /\ logged' = [a \in Artifacts |-> 0]
    /\ outcome' = [a \in Artifacts |-> "none"]
    /\ counted' = [p \in Paths |-> 0]
    /\ sent' = 0
    /\ closed' = FALSE
    /\ wg' = workers
    /\ pool' = Spawn(EmptyBag, workers)
    /\ mainPc' = "send"
    /\ UNCHANGED <<procs, files, db, scanned, thumbs>>

Generate == StartRun /\ UNCHANGED lastRun

\* Generate, with what the run before it did kept for comparison
GenerateAgain == StartRun /\ lastRun' = outcome

\* ch <- photoPath meets a worker's receive on the unbuffered channel
Send ==
    /\ mainPc = "send"
    /\ sent < Len(rows)
    /\ BagIn(IdleWorker("recv"), pool)
    /\ pool' = Handoff(pool, rows[sent + 1])
    /\ sent' = sent + 1
    /\ UNCHANGED <<lastRun, procs, files, db, scanned, thumbs, mainPc, rows, closed, wg, bar,
                   logged, rerun, outcome, counted>>

Close ==
    /\ mainPc = "send"
    /\ sent = Len(rows)
    /\ closed' = TRUE
    /\ mainPc' = "wait"
    /\ UNCHANGED <<lastRun, procs, files, db, scanned, thumbs, rows, sent, wg, pool, bar,
                   logged, rerun, outcome, counted>>

\* wg.Wait() returns
Wait ==
    /\ mainPc = "wait"
    /\ wg = 0
    /\ mainPc' = "done"
    /\ UNCHANGED <<lastRun, procs, files, db, scanned, thumbs, rows, sent, closed, wg, pool,
                   bar, logged, rerun, outcome, counted>>

\* generateThumb(photoPath, bigThumbPath, ...): the os.Stat
BigStat(ws) ==
    LET art == ThumbPath(ws.path, "big")
    IN  /\ ws.pc = "bigStat"
        /\ IF Exists(art, thumbs)
           THEN /\ pool' = Move(pool, ws, [ws EXCEPT !.pc = "smallStat",
                                                     !.bigErr = "nil",
                                                     !.src = SmallSource("nil")])
                /\ outcome' = [outcome EXCEPT ![art] = "hit"]
           ELSE /\ pool' = Move(pool, ws, [ws EXCEPT !.pc = "bigExec"])
                /\ UNCHANGED outcome
        /\ UNCHANGED <<lastRun, procs, files, db, scanned, thumbs, mainPc, rows, sent, closed,
                       wg, bar, logged, rerun, counted>>

\* generateThumb(photoPath, bigThumbPath, ...): vipsthumbnail runs, and
\* generateThumbs logs the error and picks the small thumb's source
BigExec(ws, o) ==
    LET art == ThumbPath(ws.path, "big")
        err == RunErr(o)
    IN  /\ ws.pc = "bigExec"
        /\ o \in ToolOutcomes(files[ws.path].state # "absent")
        /\ thumbs' = Written(thumbs, art, o)
        /\ outcome' = [outcome EXCEPT ![art] = o]
        /\ logged' = [logged EXCEPT ![art] = IF err = "err" THEN @ + 1 ELSE @]
        /\ pool' = Move(pool, ws, [ws EXCEPT !.pc = "smallStat",
                                             !.bigErr = err,
                                             !.src = SmallSource(err)])
        /\ UNCHANGED <<lastRun, procs, files, db, scanned, mainPc, rows, sent, closed, wg, bar,
                       rerun, counted>>

\* generateThumb(smallThumbPhotoPath, smallThumbPath, ...): the os.Stat
SmallStat(ws) ==
    LET art == ThumbPath(ws.path, "small")
    IN  /\ ws.pc = "smallStat"
        /\ IF Exists(art, thumbs)
           THEN /\ pool' = Move(pool, ws, [ws EXCEPT !.pc = "incr",
                                                     !.smallErr = "nil"])
                /\ outcome' = [outcome EXCEPT ![art] = "hit"]
           ELSE /\ pool' = Move(pool, ws, [ws EXCEPT !.pc = "smallExec"])
                /\ UNCHANGED outcome
        /\ UNCHANGED <<lastRun, procs, files, db, scanned, thumbs, mainPc, rows, sent, closed,
                       wg, bar, logged, rerun, counted>>

\* generateThumb(smallThumbPhotoPath, smallThumbPath, ...): vipsthumbnail
\* runs on the source generateThumbs picked
SmallExec(ws, o) ==
    LET art == ThumbPath(ws.path, "small")
        err == RunErr(o)
        srcThere == IF ws.src = "big"
                    THEN Exists(ThumbPath(ws.path, "big"), thumbs)
                    ELSE files[ws.path].state # "absent"
    IN  /\ ws.pc = "smallExec"
        /\ o \in ToolOutcomes(srcThere)
        /\ thumbs' = Written(thumbs, art, o)
        /\ outcome' = [outcome EXCEPT ![art] = o]
        /\ logged' = [logged EXCEPT ![art] = IF err = "err" THEN @ + 1 ELSE @]
        /\ pool' = Move(pool, ws, [ws EXCEPT !.pc = "incr", !.smallErr = err])
        /\ UNCHANGED <<lastRun, procs, files, db, scanned, mainPc, rows, sent, closed, wg, bar,
                       rerun, counted>>

\* bar.Increment(), then back to the receive
BarIncrement(ws) ==
    /\ ws.pc = "incr"
    /\ bar' = [bar EXCEPT !.current = Increment(@)]
    /\ counted' = [counted EXCEPT ![ws.path] = @ + 1]
    /\ pool' = Move(pool, ws, IdleWorker("recv"))
    /\ UNCHANGED <<lastRun, procs, files, db, scanned, thumbs, mainPc, rows, sent, closed, wg,
                   logged, rerun, outcome>>

\* the range loop ends on the closed channel; wg.Done()
WorkerExit ==
    /\ BagIn(IdleWorker("recv"), pool)
    /\ closed
    /\ pool' = Move(pool, IdleWorker("recv"), IdleWorker("exited"))
    /\ wg' = WgDone(wg)
    /\ UNCHANGED <<lastRun, procs, files, db, scanned, thumbs, mainPc, rows, sent, closed, bar,
                   logged, rerun, outcome, counted>>

\* every step of a running Generate
PipelineStep ==
    \/ Send
    \/ Close
    \/ Wait
    \/ \E ws \in BagToSet(pool) : BigStat(ws)
    \/ \E ws \in BagToSet(pool) : \E o \in {"ok", "fail", "empty"} : BigExec(ws, o)
    \/ \E ws \in BagToSet(pool) : SmallStat(ws)
    \/ \E ws \in BagToSet(pool) : \E o \in {"ok", "fail", "empty"} : SmallExec(ws, o)
    \/ \E ws \in BagToSet(pool) : BarIncrement(ws)
    \/ WorkerExit

ThumbNext == Generate \/ PipelineStep

ThumbSpec == ThumbInit /\ [][ThumbNext]_vars

\* the pipeline over a library of more photos than the pool has workers,
\* after a run that wrote every artifact but those of one photo
PoolTree == [p \in Paths |-> PhotoFile((p % MaxTime) + 1)]

PoolInit ==
    /\ files = PoolTree
    /\ db = ScanResult(EmptyDB, files)
    /\ scanned = TRUE
    /\ thumbs = {ThumbPath(p, c) : p \in Paths \ {Min(Paths)}, c \in Classes}
    /\ GenerateIdle

PoolSpec == PoolInit /\ [][ThumbNext]_vars

\* Generate run again and again over a library of 1..MaxRetry photos, each
\* run compared with the one before it
RetryInit ==
    /\ \E n \in 1..MaxRetry : files = ThumbTree(n)
    /\ db = ScanResult(EmptyDB, files)
    /\ scanned = TRUE
    /\ ThumbIdle

RetryNext == GenerateAgain \/ PipelineStep

RetrySpec == RetryInit /\ [][RetryNext]_vars

\* ------------------------------------------ concurrent Generate processes
\* The same code run by two processes at the same time, over the same
\* database and artifacts directory.  A process is modelled without its bar,
\* log and WaitGroup: it is done when the channel is closed and its workers
\* are back at the receive.  What its generateThumb calls returned is in its
\* workers' bigErr and smallErr.
mainVars == <<files, db, scanned, mainPc, rows, sent, closed, wg, pool, bar,
              logged, rerun, outcome, counted, lastRun>>

\* Generate, up to the start of the send loop
ProcGenerate(k) ==
    /\ procs[k].mainPc = "init"
    /\ procs' = [procs EXCEPT ![k].mainPc = "send",
                               ![k].pool = Spawn(EmptyBag, workers)]
    /\ UNCHANGED <<thumbs, mainVars>>

ProcSend(k) ==
    /\ procs[k].mainPc = "send"
    /\ procs[k].sent < Len(PhotoRows(db))
    /\ BagIn(IdleWorker("recv"), procs[k].pool)
    /\ procs' = [procs EXCEPT
                   ![k].pool = Handoff(@, PhotoRows(db)[procs[k].sent + 1]),
                   ![k].sent = @ + 1]
    /\ UNCHANGED <<thumbs, mainVars>>

ProcClose(k) ==
    /\ procs[k].mainPc = "send"
    /\ procs[k].sent = Len(PhotoRows(db))
    /\ procs' = [procs EXCEPT ![k].mainPc = "wait"]
    /\ UNCHANGED <<thumbs, mainVars>>

\* every worker has left its loop and wg.Wait() returns
ProcWait(k) ==
    /\ procs[k].mainPc = "wait"
    /\ procs[k].pool = [ws \in {IdleWorker("recv")} |-> workers]
    /\ procs' = [procs EXCEPT ![k].mainPc = "done"]
    /\ UNCHANGED <<thumbs, mainVars>>

ProcBigStat(k, ws) ==
    LET art == ThumbPath(ws.path, "big")
    IN  /\ ws.pc = "bigStat"
        /\ procs' =
             IF Exists(art, thumbs)
             THEN [procs EXCEPT
                     ![k].pool = Move(@, ws, [ws EXCEPT !.pc = "smallStat",
                                                        !.bigErr = "nil",
                                                        !.src = SmallSource("nil")])]
             ELSE [procs EXCEPT
                     ![k].pool = Move(@, ws, [ws EXCEPT !.pc = "bigExec"])]
        /\ UNCHANGED <<thumbs, mainVars>>

ProcBigExec(k, ws, o) ==
    LET art == ThumbPath(ws.path, "big")
        err == RunErr(o)
    IN  /\ ws.pc = "bigExec"
        /\ o \in ToolOutcomes(files[ws.path].state # "absent")
        /\ thumbs' = Written(thumbs, art, o)
        /\ procs' = [procs EXCEPT
                       ![k].pool = Move(@, ws, [ws EXCEPT !.pc = "smallStat",
                                                          !.bigErr = err,
                                                          !.src = SmallSource(err)])]
        /\ UNCHANGED mainVars

ProcSmallStat(k, ws) ==
    LET art == ThumbPath(ws.path, "small")
    IN  /\ ws.pc = "smallStat"
        /\ procs' =
             IF Exists(art, thumbs)
             THEN [procs EXCEPT
                     ![k].pool = Move(@, ws, [ws EXCEPT !.pc = "incr",
                                                        !.smallErr = "nil"])]
             ELSE [procs EXCEPT
                     ![k].pool = Move(@, ws, [ws EXCEPT !.pc = "smallExec"])]
        /\ UNCHANGED <<thumbs, mainVars>>

ProcSmallExec(k, ws, o) ==
    LET art == ThumbPath(ws.path, "small")
        srcThere == IF ws.src = "big"
                    THEN Exists(ThumbPath(ws.path, "big"), thumbs)
                    ELSE files[ws.path].state # "absent"
    IN  /\ ws.pc = "smallExec"
        /\ o \in ToolOutcomes(srcThere)
        /\ thumbs' = Written(thumbs, art, o)
        /\ procs' = [procs EXCEPT
                       ![k].pool = Move(@, ws, [ws EXCEPT !.pc = "incr",
                                                          !.smallErr = RunErr(o)])]
        /\ UNCHANGED mainVars

\* bar.Increment(), then back to the receive
ProcIncrement(k, ws) ==
    /\ ws.pc = "incr"
    /\ procs' = [procs EXCEPT ![k].pool = Move(@, ws, IdleWorker("recv"))]
    /\ UNCHANGED <<thumbs, mainVars>>

ProcStep(k) ==
    \/ ProcGenerate(k)
    \/ ProcSend(k)
    \/ ProcClose(k)
    \/ ProcWait(k)
    \/ \E ws \in BagToSet(procs[k].pool) : ProcBigStat(k, ws)
    \/ \E ws \in BagToSet(procs[k].pool) :
         \E o \in {"ok", "fail", "empty"} : ProcBigExec(k, ws, o)
    \/ \E ws \in BagToSet(procs[k].pool) : ProcSmallStat(k, ws)
    \/ \E ws \in BagToSet(procs[k].pool) :
         \E o \in {"ok", "fail", "empty"} : ProcSmallExec(k, ws, o)
    \/ \E ws \in BagToSet(procs[k].pool) : ProcIncrement(k, ws)

\* two processes, each running Generate once, over an empty artifacts
\* directory and a library of 1..MaxRace photos
RaceInit ==
    /\ \E n \in 1..MaxRace : files = ThumbTree(n)
    /\ db = ScanResult(EmptyDB, files)
    /\ scanned = TRUE
    /\ ThumbIdle

RaceNext == \E k \in Procs : ProcStep(k)

RaceSpec == RaceInit /\ [][RaceNext]_vars

\* ------------------------------------------------- Scanner / Linker claims
NoDuplicateRows(d) ==
    /\ \A i, j \in SetIds(d) : d.sets[i].name = d.sets[j].name => i = j
    /\ \A i, j \in PhotoIds(d) : d.photos[i].path = d.photos[j].path => i = j

\* C1: a second Scan over an unchanged file tree leaves the Store as the
\* first Scan left it (every Set and Photo row, links and aggregates
\* included), and no Set name or Photo path has two rows.
C1_ScanIdempotent ==
    scanned => /\ ScanResult(db, files) = db
               /\ NoDuplicateRows(db)

RECURSIVE FollowNext(_, _, _)
FollowNext(photos, id, n) ==
    IF n = 0 \/ id = Null THEN <<>>
    ELSE <<id>> \o FollowNext(photos, photos[id].next_photo_id, n - 1)

RECURSIVE FollowPrev(_, _, _)
FollowPrev(photos, id, n) ==
    IF n = 0 \/ id = Null THEN <<>>
    ELSE <<id>> \o FollowPrev(photos, photos[id].prev_photo_id, n - 1)

Reverse(w) == [i \in 1..Len(w) |-> w[Len(w) + 1 - i]]

Timed(photos, setId) ==
    {i \in PhotosOf(photos, setId) : photos[i].taken_at # Null}

\* the next-walk from an earliest Photo covers the timestamped Photos of the
\* Set in non-decreasing timestamp order and stops at the latest, and the
\* previous-walk from the latest is the same sequence reversed
ChainOrdered(photos, setId) ==
    LET T == Timed(photos, setId)
        k == Cardinality(T)
    IN  k >= 2 =>
          \E first \in T :
            /\ \A i \in T : photos[first].taken_at <= photos[i].taken_at
            /\ LET w == FollowNext(photos, first, k)
               IN  /\ Len(w) = k
                   /\ {w[i] : i \in 1..Len(w)} = T
                   /\ \A i \in 1..(Len(w) - 1) :
                        photos[w[i]].taken_at <= photos[w[i + 1]].taken_at
                   /\ photos[w[Len(w)]].next_photo_id = Null
                   /\ FollowPrev(photos, w[Len(w)], k) = Reverse(w)

\* C2: in every Set with at least two timestamped Photos, following next
\* from the earliest visits them all in non-decreasing timestamp order and
\* ends at the latest, and following previous from the latest reverses it.
C2_ChainsOrdered ==
    scanned => \A s \in SetIds(db) : ChainOrdered(db.photos, s)

\* C3: every Set's photos_count is the number of Photo rows of that Set and
\* its taken_at is the least non-null taken_at among them, NULL if none.
C3_SetAggregates ==
    \A s \in SetIds(db) :
      LET grp == {i \in PhotoIds(db) : db.photos[i].set_id = s}
          ts == {db.photos[i].taken_at : i \in grp} \ {Null}
      IN  /\ db.sets[s].photos_count = Cardinality(grp)
          /\ ts = {} => db.sets[s].taken_at = Null
          /\ ts # {} => /\ db.sets[s].taken_at \in ts
                        /\ \A u \in ts : db.sets[s].taken_at <= u

\* a Set of three Photos, one without a timestamp, whose earliest Photo is
\* not the one that was inserted first
C3_Witness ==
    \E s \in SetIds(db) :
      /\ db.sets[s].photos_count = 3
      /\ \E i, j, n \in PhotoIds(db) :
           /\ db.photos[i].set_id = s /\ db.photos[j].set_id = s
           /\ db.photos[n].set_id = s /\ db.photos[n].taken_at = Null
           /\ i < j
           /\ db.photos[j].taken_at # Null
           /\ db.photos[j].taken_at < db.photos[i].taken_at
           /\ db.sets[s].taken_at = db.photos[j].taken_at

Walked == Walk(db, WalkOrder(files), files, 1)
Relinked == updatePhotoSiblings(Walked)
SiblingPhaseErrors ==
    SiblingErrors(Walked.photos, SiblingRows(Walked.photos), 1, 0, 0)
SetsPhaseErrors ==
    SetsErrors(Relinked.sets, Relinked.photos,
               {Relinked.photos[i].set_id : i \in PhotoIds(Relinked)})

\* C11: each Linker phase is atomic: when an UPDATE of the sibling phase
\* fails, no link written by that phase is in the Store after the Scan, and
\* when an UPDATE of the aggregate phase fails, no aggregate written by it is.
C11_PhaseAtomic ==
    [][scanned' =>
         /\ SiblingPhaseErrors > 0 => db'.photos = Walked.photos
         /\ SetsPhaseErrors > 0 => db'.sets = Relinked.sets]_vars

\* C12: a failure in the sibling phase halts the run: updateSets does not
\* execute after it, so the Scan leaves every Set row as the walk left it.
C12_FailureHalts ==
    [][(scanned' /\ SiblingPhaseErrors > 0) => db'.sets = Walked.sets]_vars

\* C15: a Scan skips every file that is no photo or cannot be decoded and
\* writes a warning for it, goes on with the walk, and leaves a Photo row
\* for every file of the tree that was decoded, however many others failed.
C15_PerFileTolerance ==
    [][scanned' =>
         LET out == WalkOutput(db, WalkOrder(files), files, 1)
         IN  /\ \A p \in Paths : files[p].state = "photo" =>
                  \E i \in PhotoIds(db') : db'.photos[i].path = p
             /\ \A p \in Paths : files[p].state = "corrupt" =>
                  /\ \A i \in PhotoIds(db') : db'.photos[i].path # p
                  /\ \E k \in 1..Len(out) :
                       out[k].kind = "warning" /\ out[k].path = p]_vars

\* C14: the store step of the walk only inserts: every Photo and Set row
\* the Store held before the walk is the same after it, whatever the file
\* holds now; the rows it adds have NULL links and NULL aggregates; and a
\* whole Scan never changes the path, Set or timestamp of an existing Photo
\* or the name of an existing Set.
C14_StoreOnlyInserts ==
    [][LET w == Walked
       IN  /\ Len(w.photos) >= Len(db.photos)
           /\ Len(w.sets) >= Len(db.sets)
           /\ \A i \in PhotoIds(db) : w.photos[i] = db.photos[i]
           /\ \A i \in SetIds(db) : w.sets[i] = db.sets[i]
           /\ \A i \in PhotoIds(w) \ PhotoIds(db) :
                /\ w.photos[i].prev_photo_id = Null
                /\ w.photos[i].next_photo_id = Null
           /\ \A i \in SetIds(w) \ SetIds(db) :
                /\ w.sets[i].photos_count = Null
                /\ w.sets[i].taken_at = Null
                /\ w.sets[i].thumb_photo_id = Null
           /\ \A i \in PhotoIds(db) :
                /\ i \in PhotoIds(db')
                /\ db'.photos[i].path = db.photos[i].path
                /\ db'.photos[i].set_id = db.photos[i].set_id
                /\ db'.photos[i].taken_at = db.photos[i].taken_at
           /\ \A i \in SetIds(db) :
                /\ i \in SetIds(db')
                /\ db'.sets[i].name = db.sets[i].name]_vars

\* a Scan has run over a tree in which a photo the Store knows was rewritten
\* with another timestamp, next to a photo stored by that Scan
C14_Witness ==
    /\ scanned
    /\ \E i, j \in PhotoIds(db) :
         /\ i < j
         /\ db.photos[i].taken_at # files[db.photos[i].path].taken_at
         /\ db.photos[i].prev_photo_id # Null \/ db.photos[i].next_photo_id # Null
         /\ db.photos[j].taken_at = files[db.photos[j].path].taken_at

\* the Photos of a Set that come before (after) id in the order of the walk
\* of updatePhotoSiblings
Before(photos, id) ==
    {j \in PhotosOf(photos, photos[id].set_id) : SiblingLess(photos, j, id)}
After(photos, id) ==
    {j \in PhotosOf(photos, photos[id].set_id) : SiblingLess(photos, id, j)}

\* C16: after any sequence of Scans the links agree: p.next = q exactly when
\* q.previous = p, and in each Set every Photo but the first of the order
\* has a previous link and every Photo but the last has a next link.
C16_LinksConsistent ==
    scanned =>
      /\ \A p, q \in PhotoIds(db) :
           db.photos[p].next_photo_id = q <=> db.photos[q].prev_photo_id = p
      /\ \A p \in PhotoIds(db) :
           /\ Before(db.photos, p) # {} => db.photos[p].prev_photo_id # Null
           /\ After(db.photos, p) # {} => db.photos[p].next_photo_id # Null

\* C17: the chains are disjoint and per Set: a link never joins Photos of
\* two Sets or a Photo to itself, no Photo is the previous of two Photos or
\* the next of two, the first Photo of a Set's order has no previous link
\* and the last no next link, and the only Photo of a Set has neither.
C17_ChainsDisjoint ==
    /\ \A p \in PhotoIds(db) :
         LET prev == db.photos[p].prev_photo_id
             next == db.photos[p].next_photo_id
         IN  /\ prev # Null =>
                  /\ prev \in PhotoIds(db) \ {p}
                  /\ db.photos[prev].set_id = db.photos[p].set_id
             /\ next # Null =>
                  /\ next \in PhotoIds(db) \ {p}
                  /\ db.photos[next].set_id = db.photos[p].set_id
             /\ Before(db.photos, p) = {} => prev = Null
             /\ After(db.photos, p) = {} => next = Null
             /\ PhotosOf(db.photos, db.photos[p].set_id) = {p} =>
                  prev = Null /\ next = Null
    /\ \A p, q \in PhotoIds(db) :
         p # q =>
           /\ db.photos[p].prev_photo_id # Null =>
                db.photos[p].prev_photo_id # db.photos[q].prev_photo_id
           /\ db.photos[p].next_photo_id # Null =>
                db.photos[p].next_photo_id # db.photos[q].next_photo_id

\* two Sets were scanned more than once: one holds two linked Photos, the
\* other a single Photo stored later, without links
C17_Witness ==
    /\ scanned
    /\ \E p, q, r \in PhotoIds(db) :
         /\ db.photos[p].set_id = db.photos[q].set_id
         /\ db.photos[p].next_photo_id = q
         /\ db.photos[q].prev_photo_id = p
         /\ db.photos[r].set_id # db.photos[p].set_id
         /\ db.photos[r].prev_photo_id = Null
         /\ db.photos[r].next_photo_id = Null
         /\ db.sets[db.photos[r].set_id].photos_count = 1

\* the rows of the walk of updatePhotoSiblings at i < j are of one Set
SameSetRows(photos, r, i, j) ==
    i < j /\ photos[r[i]].set_id = photos[r[j]].set_id

\* C20 as stated: the sibling phase walks the Photos of a Set with those
\* without a timestamp last, and in every chain no Photo without a timestamp
\* is followed by one that has a timestamp.
C20_NullsLast ==
    LET r == SiblingRows(db.photos)
    IN  /\ \A i, j \in 1..Len(r) :
             SameSetRows(db.photos, r, i, j) =>
               ~(db.photos[r[i]].taken_at = Null /\ db.photos[r[j]].taken_at # Null)
        /\ \A p \in PhotoIds(db) :
             LET q == db.photos[p].next_photo_id
             IN  q # Null =>
                   ~(db.photos[p].taken_at = Null /\ db.photos[q].taken_at # Null)

\* C20: the sibling phase walks the Photos by (set_id, taken_at ascending)
\* with those without a timestamp first within their Set, so in every chain
\* no Photo with a timestamp is followed by one without: every next link
\* leads to a Photo later in that order, every previous link to an earlier.
C20_NullsFirst ==
    LET r == SiblingRows(db.photos)
    IN  /\ \A i, j \in 1..Len(r) :
             SameSetRows(db.photos, r, i, j) =>
               /\ ~(db.photos[r[i]].taken_at # Null /\ db.photos[r[j]].taken_at = Null)
               /\ db.photos[r[i]].taken_at <= db.photos[r[j]].taken_at
        /\ \A p \in PhotoIds(db) :
             LET q == db.photos[p].next_photo_id
                 o == db.photos[p].prev_photo_id
             IN  /\ q # Null =>
                      /\ q \in After(db.photos, p)
                      /\ ~(db.photos[p].taken_at # Null /\ db.photos[q].taken_at = Null)
                 /\ o # Null =>
                      /\ o \in Before(db.photos, p)
                      /\ ~(db.photos[o].taken_at # Null /\ db.photos[p].taken_at = Null)

\* a Set whose chain leads from a Photo without a timestamp to one with a
\* timestamp that was stored before it
C20_Witness ==
    /\ scanned
    /\ \E p, q \in PhotoIds(db) :
         /\ q < p
         /\ db.photos[p].taken_at = Null
         /\ db.photos[q].taken_at # Null
         /\ db.photos[p].next_photo_id = q
         /\ db.photos[q].prev_photo_id = p

\* ------------------------------------------------------- pipeline claims
Ran == {"ok", "fail", "empty"}       \* generateThumb ran vipsthumbnail
BigOf(ws) == ThumbPath(ws.path, "big")
SmallOf(ws) == ThumbPath(ws.path, "small")

\* C5 as stated: a second call of generateThumb for a (path, size class)
\* never runs vipsthumbnail: from the second Generate on, every call is a
\* file-existence check only.
C5_SecondCallOnlyChecks ==
    rerun => \A a \in Artifacts : outcome[a] \in {"none", "hit"}

\* C5: generateThumb runs vipsthumbnail for an artifact only while no file
\* is at the artifact path, in any Generate run; when the file is there the
\* call returns nil without running the tool.
C5_DeriveOnlyWhenAbsent ==
    /\ [][\A a \in Artifacts :
            (outcome[a] = "none" /\ outcome'[a] # "none") =>
              IF a \in thumbs THEN outcome'[a] = "hit" ELSE outcome'[a] \in Ran]_vars
    /\ [](\A ws \in BagToSet(pool) :
            (ws.pc \in {"smallStat", "smallExec", "incr"} /\ outcome[BigOf(ws)] = "hit")
              => ws.bigErr = "nil")

\* in the second Generate run a call finds the file the first run wrote
C5_Witness ==
    /\ rerun
    /\ \E p \in Paths : /\ outcome[ThumbPath(p, "big")] = "hit"
                        /\ outcome[ThumbPath(p, "small")] = "hit"

\* C6: generateThumb returns an error whenever vipsthumbnail exits non-zero
\* or leaves no file at the artifact path, and runs it at most once per call.
C6_FailureReported ==
    \A ws \in BagToSet(pool) :
      (ws.pc \in {"smallStat", "smallExec", "incr"}
         /\ (outcome[BigOf(ws)] = "fail"
               \/ (outcome[BigOf(ws)] \in Ran /\ BigOf(ws) \notin thumbs)))
        => ws.bigErr = "err"

\* C7: the small generateThumb of a photo starts only after the big one has
\* returned, and its source is the big artifact exactly when the big call
\* returned nil, the photo itself otherwise.
C7_SmallSource ==
    \A ws \in BagToSet(pool) :
      /\ ws.pc \in {"bigStat", "bigExec"} => outcome[SmallOf(ws)] = "none"
      /\ ws.pc \in {"smallStat", "smallExec"} =>
           /\ outcome[BigOf(ws)] # "none"
           /\ ws.bigErr \in {"nil", "err"}
           /\ ws.src = "big" <=> ws.bigErr = "nil"
           /\ ws.src = "orig" <=> ws.bigErr = "err"
           /\ ws.bigErr = "err" <=> outcome[BigOf(ws)] = "fail"

\* two workers are about to run the small derivation, one from the big
\* artifact and one from the photo
C7_Witness ==
    \E a, b \in BagToSet(pool) :
      /\ a.pc = "smallExec" /\ a.src = "big" /\ outcome[BigOf(a)] = "ok"
      /\ b.pc = "smallExec" /\ b.src = "orig" /\ outcome[BigOf(b)] = "fail"

\* C8: when Generate is done, generateThumb was called for both size
\* classes of every path of the query, whatever failed; a log line is
\* written for an artifact exactly when its derivation failed; and a photo
\* whose big derivation failed and small one succeeded has the small
\* artifact only and one log line.
C8_FailureIsolation ==
    /\ \A a \in Artifacts : logged[a] = IF outcome[a] = "fail" THEN 1 ELSE 0
    /\ mainPc = "done" =>
         \A i \in 1..Len(rows) :
           LET big == ThumbPath(rows[i], "big")
               small == ThumbPath(rows[i], "small")
           IN  /\ outcome[big] # "none"
               /\ outcome[small] # "none"
               /\ (outcome[big] = "fail" /\ outcome[small] = "ok") =>
                    /\ small \in thumbs
                    /\ big \notin thumbs
                    /\ logged[big] + logged[small] = 1

\* a finished run in which one photo lost its big thumb and got its small
\* one, and the other photo got both
C8_Witness ==
    /\ mainPc = "done"
    /\ \E p, q \in Paths :
         /\ outcome[ThumbPath(p, "big")] = "fail"
         /\ outcome[ThumbPath(p, "small")] = "ok"
         /\ outcome[ThumbPath(q, "big")] = "ok"
         /\ outcome[ThumbPath(q, "small")] = "ok"

RECURSIVE SumCounted(_, _)
SumCounted(f, S) ==
    IF S = {} THEN 0
    ELSE LET p == CHOOSE q \in S : TRUE IN f[p] + SumCounted(f, S \ {p})

\* C9: the bar is incremented once per photo, after both generateThumb
\* calls for it, whether they failed or not; when Generate is done the bar
\* stands at the number of paths of the query.
C9_ProgressCounter ==
    /\ \A p \in Paths :
         /\ counted[p] <= 1
         /\ counted[p] = 1 => /\ outcome[ThumbPath(p, "big")] # "none"
                              /\ outcome[ThumbPath(p, "small")] # "none"
    /\ bar.current = SumCounted(counted, Paths)
    /\ mainPc = "done" =>
         /\ bar.current = Len(rows)
         /\ bar.current = bar.total
         /\ \A i \in 1..Len(rows) : counted[rows[i]] = 1

\* a finished run over two photos, with a failed derivation, bar at 2
C9_Witness ==
    /\ mainPc = "done"
    /\ bar.current = 2
    /\ \E a \in Artifacts : outcome[a] = "fail"

\* C13: over any number of Generate runs one after the other, no step of
\* the pipeline removes an artifact file, and vipsthumbnail is run for an
\* artifact only when no file is at its path, so a file that exists is never
\* written again.
C13_AppendOnly ==
    [][/\ thumbs \subseteq thumbs'
       /\ \A a \in Artifacts :
            (outcome'[a] \in Ran /\ outcome'[a] # outcome[a]) => a \notin thumbs
       /\ \A a \in thumbs' \ thumbs : outcome'[a] = "ok"]_vars

\* a later run finds one artifact in place and leaves it, and creates
\* another one that the earlier run had failed to write
C13_Witness ==
    /\ rerun
    /\ \E a, b \in thumbs : outcome[a] = "hit" /\ outcome[b] = "ok"

\* the goroutines of all processes
AllWorkers(ps) == UNION {BagToSet(ps[k].pool) : k \in Procs}

\* C19: with two Generate processes running at once, the check and the
\* derivation are separate steps, so both processes can find an artifact
\* absent and both run vipsthumbnail for it (the witness).  What holds then:
\* no step removes a file, and a file appears at an artifact path only in a
\* step in which a generateThumb call for that pair ran the tool and
\* returned nil, whatever the other process does with the same pair before
\* or after.
C19_SuccessfulWriterWins ==
       [][/\ thumbs \subseteq thumbs'
           /\ \A a \in thumbs' \ thumbs :
                \E ws \in AllWorkers(procs') :
                  \/ ws.pc = "smallStat" /\ BigOf(ws) = a /\ ws.bigErr = "nil"
                  \/ ws.pc = "incr" /\ SmallOf(ws) = a /\ ws.smallErr = "nil"]_vars

\* a worker of each process has found the big artifact of the same photo
\* absent and is about to run the derivation for it
C19_Witness ==
    \E ws \in BagToSet(procs["first"].pool) :
      \E wo \in BagToSet(procs["second"].pool) :
        /\ ws.pc = "bigExec"
        /\ wo.pc = "bigExec"
        /\ ws.path = wo.path
        /\ ThumbPath(ws.path, "big") \notin thumbs

\* the artifacts of the paths of this run's query
RowArtifacts == {ThumbPath(rows[i], c) : i \in 1..Len(rows), c \in Classes}

\* C21: no derivation is tried twice within a run, and one that fails
\* leaves no file; so when a run is done that followed another run, the tool
\* was run again for every pair whose derivation wrote no file in the run
\* before (it failed), and every pair whose derivation succeeded then was
\* only checked.
C21_RetryNextRun ==
    /\ [][\A a \in Artifacts :
            /\ (outcome[a] # "none" /\ mainPc # "done") => outcome'[a] = outcome[a]
            /\ (outcome[a] = "none" /\ outcome'[a] \in {"fail", "empty"})
                 => a \notin thumbs']_vars
    /\ []((mainPc = "done" /\ rerun) =>
            \A a \in RowArtifacts :
              /\ lastRun[a] \in {"fail", "empty"} => outcome[a] \in Ran
              /\ lastRun[a] = "ok" => outcome[a] = "hit"
              /\ lastRun[a] # "none")

\* a second run is done: it ran the tool again for the big artifact the
\* first run failed to write, and only checked the small one it had written
C21_Witness ==
    /\ mainPc = "done"
    /\ rerun
    /\ \E p \in Paths :
         /\ lastRun[ThumbPath(p, "big")] = "fail"
         /\ outcome[ThumbPath(p, "big")] = "ok"
         /\ lastRun[ThumbPath(p, "small")] = "ok"
         /\ outcome[ThumbPath(p, "small")] = "hit"

\* the workers of the pool that are at pc
WorkersAt(bag, pc) ==
    BagCardinality([ws \in {x \in BagToSet(bag) : x.pc = pc} |-> bag[ws]])

\* the workers of the pool that hold path p
Holding(bag, p) ==
    BagCardinality([ws \in {x \in BagToSet(bag) : x.path = p} |-> bag[ws]])

\* C18: in a run of the pool every path of the query is received by exactly
\* one of the workers: a path that was sent is held by one worker or was
\* counted once, never both and never by two workers, a path not yet sent is
\* held by none; the query has no path twice; and the pool never has more
\* than `workers` goroutines, so at most that many photos are in process.
C18_OneWorkerPerPath ==
    /\ \A i, j \in 1..Len(rows) : rows[i] = rows[j] => i = j
    /\ \A i \in 1..Len(rows) :
         Holding(pool, rows[i]) + counted[rows[i]] = (IF i <= sent THEN 1 ELSE 0)
    /\ \A p \in Paths :
         (\A i \in 1..Len(rows) : rows[i] # p) => Holding(pool, p) = 0
    /\ BagCardinality(pool) <= workers
    /\ BagCardinality(pool) - WorkersAt(pool, "recv")
         - WorkersAt(pool, "exited") <= workers

\* every worker of the pool holds a photo while the query has a path that
\* was not sent yet
C18_Witness ==
    /\ mainPc = "send"
    /\ sent < Len(rows)
    /\ Cardinality({ws.path : ws \in BagToSet(pool)} \ {Null}) = workers

\* steps a worker still has to take for the photo it holds
StepsLeft(pc) ==
    CASE pc = "bigStat" -> 5
      [] pc = "bigExec" -> 4
      [] pc = "smallStat" -> 3
      [] pc = "smallExec" -> 2
      [] pc = "incr" -> 1
      [] OTHER -> 0

PoolStepsLeft(bag) ==
    WorkersAt(bag, "bigStat") * StepsLeft("bigStat")
      + WorkersAt(bag, "bigExec") * StepsLeft("bigExec")
      + WorkersAt(bag, "smallStat") * StepsLeft("smallStat")
      + WorkersAt(bag, "smallExec") * StepsLeft("smallExec")
      + WorkersAt(bag, "incr") * StepsLeft("incr")

\* an upper bound on the steps the running Generate still takes: six per
\* unsent path, those of the busy workers, the close, one exit per worker
\* and the return of wg.Wait()
Remaining ==
    (Len(rows) - sent) * (StepsLeft("bigStat") + 1)
      + PoolStepsLeft(pool)
      + (IF closed THEN 0 ELSE 1)
      + wg
      + (IF mainPc \in {"send", "wait"} THEN 1 ELSE 0)

\* C10: a running Generate can always take a step (no deadlock) and every
\* step brings it nearer to the end, so it ends whenever its goroutines are
\* scheduled; and when it is done every path of the query was sent and
\* processed, every worker has left its loop and the WaitGroup is at zero.
C10_FullDrain ==
    /\ [](mainPc \in {"send", "wait"} => ENABLED PipelineStep)
    /\ [](Remaining >= 0)
    /\ [][(mainPc \in {"send", "wait"}) => (Remaining' < Remaining)]_vars
    /\ [](mainPc = "done" =>
            /\ wg = 0
            /\ closed
            /\ sent = Len(rows)
            /\ pool = [ws \in {IdleWorker("exited")} |-> workers]
            /\ \A i \in 1..Len(rows) : counted[rows[i]] = 1)

\* Generate is done over a library of two photos
C10_Witness ==
    /\ mainPc = "done"
    /\ Len(rows) = 2
    /\ wg = 0

====
